---- MODULE Spec2Model ----
(***************************************************************************)
(* A model of frontend/auth.js: the session gate (signup, login, logout,   *)
(* requireAuth over localStorage), the live detection client (WebSocket    *)
(* with reconnect, camera capture loop with the in-flight flag `sending`)  *)
(* and the two batch upload flows (image, video).                          *)
(*                                                                         *)
(* The browser runs every handler to completion on one thread, so each     *)
(* handler (up to its next await) is one action.                           *)
(***************************************************************************)
EXTENDS Naturals, Sequences, FiniteSets, TLC

VARIABLES
    \* ---- localStorage and the page (session gate)
    usersItem,      \* localStorage['users']: <<>> when absent, else <<JSON text>>
    authItem,       \* localStorage['auth_user']: <<>> when absent, else <<string>>
    page,           \* location.href: the page the browser shows
    lastPw,         \* history: email -> password of the most recent signup
    alerted         \* the alert() the last handler raised ("" when it raised none)

authVars == <<usersItem, authItem, page, lastPw>>

VARIABLES
    \* ---- live detection client, streaming path
    socks,          \* the WebSocket objects that can still raise events or are `ws`
    ws,             \* the module-level `ws`: 0 (undefined) or an index into socks
    sending,        \* the module-level in-flight flag
    timers,         \* pending setTimeout(connectWS, 1000) callbacks
    sent,           \* the send() calls the last handler made that did not throw
    threw,          \* the last handler ended with an uncaught exception
    rafs,           \* pending requestAnimationFrame(captureLoop) callbacks
    camPending,     \* pending navigator.mediaDevices.getUserMedia promises
    hasStream,      \* video.srcObject is set
    videoReady,     \* video.readyState >= 2
    encoding,       \* canvas.toBlob callbacks not yet called
    buffering,      \* toBlob callbacks suspended at `await blob.arrayBuffer()`
    colour,         \* colorSel.value
    conf,           \* confRange.value
    confVal,        \* confVal.textContent
    outputSrc,      \* output.src
    outputHidden    \* output.classList contains "hidden"

sockVars == <<socks, ws, timers, sent, threw>>
loopVars == <<sending, rafs, camPending, hasStream, videoReady, encoding, buffering>>
settingVars == <<colour, conf, confVal>>
outputVars == <<outputSrc, outputHidden>>
streamVars == <<sockVars, loopVars, settingVars, outputVars>>

VARIABLES
    \* ---- live detection client, batch paths
    imageInput,     \* imageInput.files[0].name, "" when no file is chosen
    videoFile,      \* videoFile.files[0].name, "" when no file is chosen
    submitImage,    \* the image button: [disabled, textContent]
    submitVideo,    \* the video button: [disabled, textContent]
    imgFetch,       \* image handlers suspended at `await fetch(...)`
    imgRead,        \* image handlers suspended at `await res.blob()`
    imgName,        \* `file.name` of the image handler in flight
    vidFetch,       \* video handlers suspended at `await fetch(...)`
    vidRead,        \* video handlers suspended at `await res.json()`
    outputVideoSrc, \* outputVideo.src
    outputVideoHidden, \* outputVideo.classList contains "hidden"
    downloadImage,  \* [href, download, display] of the image download link
    downloadLink,   \* [href, download, display] of the video download link
    statsText,      \* statsEl.textContent
    statsHidden,    \* statsEl.classList contains "hidden"
    statsTitleHidden, \* statsTitle.classList contains "hidden"
    plotSrc,        \* plotImg.src
    plotHidden      \* plotImg.classList contains "hidden"

imageVars == <<imageInput, submitImage, imgFetch, imgRead, imgName, downloadImage>>
videoVars == <<videoFile, submitVideo, vidFetch, vidRead, outputVideoSrc, downloadLink,
               statsText, statsHidden, statsTitleHidden, plotSrc, plotHidden>>
batchVars == <<imageVars, videoVars, outputVideoHidden>>

vars == <<authVars, alerted, streamVars, batchVars>>

-----------------------------------------------------------------------------
(* Strings the forms can hold.  Raw e-mail values are trimmed by the       *)
(* handlers; passwords are taken as typed.                                 *)

RawEmails == {"a@x.com", " a@x.com ", "b@x.com", "  ", "__proto__"}
Passwords == {"pw1", "wrong"}

RECURSIVE trimStart(_)
trimStart(s) ==
    IF Len(s) > 0 /\ SubSeq(s, 1, 1) = " "
    THEN trimStart(SubSeq(s, 2, Len(s)))
    ELSE s

RECURSIVE trimEnd(_)
trimEnd(s) ==
    IF Len(s) > 0 /\ SubSeq(s, Len(s), Len(s)) = " "
    THEN trimEnd(SubSeq(s, 1, Len(s) - 1))
    ELSE s

\* String.prototype.trim
trim(s) == trimEnd(trimStart(s))

Emails == {trim(r) : r \in RawEmails}

-----------------------------------------------------------------------------
(* JavaScript values and plain objects, as far as saveUser and checkUser   *)
(* use them.  A plain object has own properties and a prototype; the key   *)
(* "__proto__" is the accessor inherited from Object.prototype, not a data *)
(* property.                                                               *)

Undefined == [kind |-> "undefined", email |-> "", password |-> ""]
Builtin   == [kind |-> "builtin",   email |-> "", password |-> ""]
UserRecord(email, password) ==
    [kind |-> "record", email |-> email, password |-> password]

ObjectPrototypeKeys ==
    {"constructor", "toString", "valueOf", "hasOwnProperty",
     "isPrototypeOf", "propertyIsEnumerable", "toLocaleString"}

EmptyOwn == [k \in {} |-> Undefined]

\* JSON.parse(text): an object whose own data properties are the text's
\* members and whose prototype is Object.prototype.
JSONparse(text) == [own |-> text, proto |-> Builtin]

\* JSON.stringify(obj): the own enumerable properties only.
JSONstringify(obj) == obj.own

\* obj[key] = value
SetProp(obj, key, value) ==
    IF key = "__proto__"
    THEN [obj EXCEPT !.proto = value]
    ELSE [obj EXCEPT !.own =
            [k \in DOMAIN obj.own \cup {key} |->
                IF k = key THEN value ELSE obj.own[k]]]

\* obj[key]
GetProp(obj, key) ==
    IF key = "__proto__" THEN obj.proto
    ELSE IF key \in DOMAIN obj.own THEN obj.own[key]
    ELSE IF obj.proto.kind = "builtin" /\ key \in ObjectPrototypeKeys THEN Builtin
    ELSE Undefined

\* ToBoolean of a value GetProp can return
Truthy(v) == v.kind # "undefined"

\* v.password of a truthy value: <<>> for undefined, else <<string>>
PasswordOf(v) == IF v.kind = "record" THEN <<v.password>> ELSE <<>>

\* JSON.parse(localStorage.getItem('users') || '{}')
loadUsers(item) == JSONparse(IF item = <<>> THEN EmptyOwn ELSE item[1])

\* saveUser(email, password): the new value of localStorage['users']
saveUser(item, email, password) ==
    <<JSONstringify(SetProp(loadUsers(item), email, UserRecord(email, password)))>>

\* checkUser(email, password)
checkUser(item, email, password) ==
    LET u == GetProp(loadUsers(item), email)
    IN  Truthy(u) /\ PasswordOf(u) = <<password>>

\* setAuthed(email): the new value of localStorage['auth_user']
setAuthed(email) == <<email>>

\* requireAuth(): TRUE when it redirects to login.html.  getItem returns
\* null for an absent key, and both null and "" are falsy.
requireAuth(item) == item = <<>> \/ item[1] = ""

-----------------------------------------------------------------------------
(* Session gate handlers *)

\* A fresh browser profile on the login page: nothing stored.
AuthInit ==
    /\ usersItem = <<>>
    /\ authItem = <<>>
    /\ page = "login.html"
    /\ lastPw = [e \in {} |-> ""]
    /\ alerted = ""

\* The user opens the signup or the login page.
openPage(p) ==
    /\ page' = p
    /\ alerted' = ""
    /\ UNCHANGED <<usersItem, authItem, lastPw, streamVars, batchVars>>

\* A guarded page loads and calls requireAuth().
loadGuarded ==
    /\ page' = IF requireAuth(authItem) THEN "login.html" ELSE "index.html"
    /\ alerted' = ""
    /\ UNCHANGED <<usersItem, authItem, lastPw, streamVars, batchVars>>

signupSubmit(raw, password) ==
    /\ page = "signup.html"
    /\ LET email == trim(raw)
       IN  /\ usersItem' = saveUser(usersItem, email, password)
           /\ authItem' = setAuthed(email)
           /\ lastPw' = [e \in DOMAIN lastPw \cup {email} |->
                            IF e = email THEN password ELSE lastPw[e]]
    /\ page' = "index.html"
    /\ alerted' = ""
    /\ UNCHANGED <<streamVars, batchVars>>

\* The login handler, had it called setAuthed before checkUser.
loginSubmitMarksFirst(raw, password) ==
    /\ page = "login.html"
    /\ LET email == trim(raw)
       IN  /\ authItem' = setAuthed(email)
           /\ IF checkUser(usersItem, email, password)
              THEN page' = "index.html" /\ alerted' = ""
              ELSE alerted' = "Invalid credentials" /\ UNCHANGED page
    /\ UNCHANGED <<usersItem, lastPw, streamVars, batchVars>>

loginSubmit(raw, password) ==
    /\ page = "login.html"
    /\ LET email == trim(raw)
       IN  IF checkUser(usersItem, email, password)
           THEN /\ authItem' = setAuthed(email)
                /\ page' = "index.html"
                /\ alerted' = ""
           ELSE /\ alerted' = "Invalid credentials"
                /\ UNCHANGED <<authItem, page>>
    /\ UNCHANGED <<usersItem, lastPw, streamVars, batchVars>>

logoutClick ==
    /\ page = "index.html"
    /\ authItem' = <<>>
    /\ page' = "login.html"
    /\ alerted' = ""
    /\ UNCHANGED <<usersItem, lastPw, streamVars, batchVars>>


-----------------------------------------------------------------------------
(* Live detection client: the socket, the settings and the capture loop   *)

MaxSockets == 2     \* WebSocket objects alive at once (open, or waiting to reconnect)
MaxLoops == 2       \* camera starts: pending getUserMedia promises plus capture loops

Colours == {"red", "blue"}
Confs == {"0.25", "0.5"}
Inbound ==
    {[type |-> "text", data |-> "ERR: bad frame"],
     [type |-> "text", data |-> "ok"],
     [type |-> "binary", data |-> "jpegA"],
     [type |-> "binary", data |-> "jpegB"]}

SockIds == 1 .. MaxSockets

\* `color=${colorSel.value}` and `conf=${confRange.value}`
colorMsg(c) == [type |-> "text", data |-> "color=" \o c]
confMsg(c) == [type |-> "text", data |-> "conf=" \o c]
\* the ArrayBuffer of a JPEG-encoded camera frame
frameMsg == [type |-> "binary", data |-> "frame"]

\* ws && ws.readyState === WebSocket.OPEN
wsOpen(sk, w) == w # 0 /\ sk[w] = "OPEN"

\* WebSocket.send throws InvalidStateError while the socket is CONNECTING.
sendThrows(sk, w) == sk[w] = "CONNECTING"

\* ws.send(m) that does not throw: the call as the browser sees it.  An OPEN
\* socket transmits m; a CLOSING or CLOSED socket discards it.
wsSend(sk, w, m) == [to |-> w, readyState |-> sk[w], data |-> m]

\* Sockets that can still raise events, and reconnects still to come.
live(sk) == {i \in SockIds : sk[i] \in {"CONNECTING", "OPEN", "CLOSING"}}
chains == Cardinality(live(socks)) + timers

\* A CLOSED socket raises no further event: it stays only while `ws` holds it.
release(sk, w) ==
    [i \in SockIds |-> IF sk[i] = "CLOSED" /\ i # w THEN "FREE" ELSE sk[i]]

\* connectWS(): ws = new WebSocket(WS_URL), with its three handlers.
connectWS ==
    LET freed == release(socks, 0)
        n == CHOOSE i \in SockIds : freed[i] = "FREE"
    IN  /\ \E i \in SockIds : freed[i] = "FREE"
        /\ socks' = [freed EXCEPT ![n] = "CONNECTING"]
        /\ ws' = n

StreamInit ==
    /\ socks = [i \in SockIds |-> "FREE"]
    /\ ws = 0
    /\ timers = 0
    /\ sent = <<>>
    /\ threw = FALSE
    /\ sending = FALSE
    /\ rafs = 0
    /\ camPending = 0
    /\ hasStream = FALSE
    /\ videoReady = FALSE
    /\ encoding = 0
    /\ buffering = 0
    /\ colour \in Colours
    /\ conf \in Confs
    /\ confVal = ""
    /\ outputSrc = ""
    /\ outputHidden = TRUE

\* What a handler of the streaming path leaves behind: its send() calls,
\* whether it ended with an exception, and no alert.
effects(calls, exception) == sent' = calls /\ threw' = exception /\ alerted' = ""

\* A handler that calls send() nowhere and ends normally.
quiet == effects(<<>>, FALSE)

\* ws.onopen of socket i: the handshake succeeded.  The handler sends on the
\* module-level ws, whichever socket that is by now.
onopen(i) ==
    /\ socks[i] = "CONNECTING"
    /\ socks' = [socks EXCEPT ![i] = "OPEN"]
    /\ IF sendThrows(socks', ws)
       THEN effects(<<>>, TRUE)
       ELSE effects(<<wsSend(socks', ws, colorMsg(colour)),
                      wsSend(socks', ws, confMsg(conf))>>, FALSE)
    /\ UNCHANGED <<ws, timers, loopVars, settingVars, outputVars, authVars, batchVars>>

\* The message handler, had it rendered every message, text included.
onmessageRendersAll(i, ev) ==
    /\ socks[i] = "OPEN"
    /\ outputSrc' = "blob:" \o ev.data
    /\ outputHidden' = FALSE
    /\ quiet
    /\ UNCHANGED <<socks, ws, timers, loopVars, settingVars, authVars, batchVars>>

\* ws.onmessage of socket i
onmessage(i, ev) ==
    /\ socks[i] = "OPEN"
    /\ IF ev.type = "text"
       THEN UNCHANGED outputVars
       ELSE /\ outputSrc' = "blob:" \o ev.data
            /\ outputHidden' = FALSE
    /\ quiet
    /\ UNCHANGED <<socks, ws, timers, loopVars, settingVars, authVars, batchVars>>

\* The server starts the closing handshake: readyState becomes CLOSING.
closing(i) ==
    /\ socks[i] = "OPEN"
    /\ socks' = [socks EXCEPT ![i] = "CLOSING"]
    /\ quiet
    /\ UNCHANGED <<ws, timers, loopVars, settingVars, outputVars, authVars, batchVars>>

\* The close handler, had it given up instead of scheduling a reconnect.
oncloseGivesUp(i) ==
    /\ socks[i] \in {"CONNECTING", "OPEN", "CLOSING"}
    /\ socks' = release([socks EXCEPT ![i] = "CLOSED"], ws)
    /\ quiet
    /\ UNCHANGED <<ws, timers, loopVars, settingVars, outputVars, authVars, batchVars>>

\* ws.onclose of socket i: the connection failed, broke or was closed.
onclose(i) ==
    /\ socks[i] \in {"CONNECTING", "OPEN", "CLOSING"}
    /\ socks' = release([socks EXCEPT ![i] = "CLOSED"], ws)
    /\ timers' = timers + 1
    /\ quiet
    /\ UNCHANGED <<ws, loopVars, settingVars, outputVars, authVars, batchVars>>

\* setTimeout(connectWS, 1000) fires.
reconnect ==
    /\ timers > 0
    /\ timers' = timers - 1
    /\ connectWS
    /\ quiet
    /\ UNCHANGED <<loopVars, settingVars, outputVars, authVars, batchVars>>

\* startBtn click: connectWS() unless ws is open, then startCamera() up to
\* its await of getUserMedia.
startClick ==
    /\ page = "index.html"
    /\ camPending + rafs < MaxLoops
    /\ IF ~wsOpen(socks, ws)
       THEN chains < MaxSockets /\ connectWS
       ELSE UNCHANGED <<socks, ws>>
    /\ camPending' = camPending + 1
    /\ quiet
    /\ UNCHANGED <<timers, sending, rafs, hasStream, videoReady, encoding, buffering,
                   settingVars, outputVars, authVars, batchVars>>

\* startCamera() after the await: the stream is attached and the loop starts.
cameraGranted ==
    /\ camPending > 0
    /\ camPending' = camPending - 1
    /\ hasStream' = TRUE
    /\ videoReady' = FALSE
    /\ rafs' = rafs + 1
    /\ quiet
    /\ UNCHANGED <<sending, encoding, buffering, socks, ws, timers,
                   settingVars, outputVars, authVars, batchVars>>

\* getUserMedia rejects: startCamera() ends there.
cameraDenied ==
    /\ camPending > 0
    /\ camPending' = camPending - 1
    /\ effects(<<>>, TRUE)
    /\ UNCHANGED <<sending, rafs, hasStream, videoReady, encoding, buffering,
                   socks, ws, timers, settingVars, outputVars, authVars, batchVars>>

\* The video element has buffered a frame of the stream.
videoLoaded ==
    /\ hasStream
    /\ ~videoReady
    /\ videoReady' = TRUE
    /\ UNCHANGED <<sending, rafs, camPending, hasStream, encoding, buffering,
                   sockVars, settingVars, outputVars, authVars, batchVars, alerted>>

\* captureLoop's condition without its `!sending` conjunct.
mayCaptureNoFlag == wsOpen(socks, ws) /\ videoReady

\* The condition of captureLoop's if.
mayCapture == ~sending /\ wsOpen(socks, ws) /\ videoReady

\* captureLoop(): one animation-frame tick of one loop.  It reschedules
\* itself, so rafs stays as it is.
captureLoop ==
    /\ rafs > 0
    /\ IF mayCapture
       THEN sending' = TRUE /\ encoding' = encoding + 1
       ELSE UNCHANGED <<sending, encoding>>
    /\ quiet
    /\ UNCHANGED <<rafs, camPending, hasStream, videoReady, buffering,
                   socks, ws, timers, settingVars, outputVars, authVars, batchVars>>

\* The toBlob callback up to its await (or to its end).
toBlobDone(blob) ==
    /\ encoding > 0
    /\ encoding' = encoding - 1
    /\ IF blob /\ wsOpen(socks, ws)
       THEN buffering' = buffering + 1 /\ UNCHANGED sending
       ELSE sending' = FALSE /\ UNCHANGED buffering
    /\ quiet
    /\ UNCHANGED <<rafs, camPending, hasStream, videoReady,
                   socks, ws, timers, settingVars, outputVars, authVars, batchVars>>

\* The toBlob callback after `await blob.arrayBuffer()`: ws.send(buf), then
\* sending = false unless send threw.
bufferReady ==
    /\ buffering > 0
    /\ buffering' = buffering - 1
    /\ IF sendThrows(socks, ws)
       THEN effects(<<>>, TRUE) /\ UNCHANGED sending
       ELSE effects(<<wsSend(socks, ws, frameMsg)>>, FALSE) /\ sending' = FALSE
    /\ UNCHANGED <<socks, ws, timers, rafs, camPending, hasStream, videoReady, encoding,
                   settingVars, outputVars, authVars, batchVars>>

\* The colour handler, had it been gated by the in-flight flag as frames are.
colorChangeGated(c) ==
    /\ page = "index.html"
    /\ c # colour
    /\ colour' = c
    /\ effects(IF wsOpen(socks, ws) /\ ~sending
               THEN <<wsSend(socks, ws, colorMsg(c))>> ELSE <<>>, FALSE)
    /\ UNCHANGED <<socks, ws, timers, conf, confVal, loopVars, outputVars, authVars, batchVars>>

\* colorSel "change"
colorChange(c) ==
    /\ page = "index.html"
    /\ c # colour
    /\ colour' = c
    /\ effects(IF wsOpen(socks, ws) THEN <<wsSend(socks, ws, colorMsg(c))>> ELSE <<>>, FALSE)
    /\ UNCHANGED <<socks, ws, timers, conf, confVal, loopVars, outputVars, authVars, batchVars>>

\* confRange "input"
confInput(c) ==
    /\ page = "index.html"
    /\ c # conf
    /\ conf' = c
    /\ confVal' = c
    /\ effects(IF wsOpen(socks, ws) THEN <<wsSend(socks, ws, confMsg(c))>> ELSE <<>>, FALSE)
    /\ UNCHANGED <<socks, ws, timers, colour, loopVars, outputVars, authVars, batchVars>>

-----------------------------------------------------------------------------
(* Live detection client: the image and the video upload                   *)

ImageNames == {"cat.png", "photo"}
VideoNames == {"clip.mp4"}

\* What `await fetch(...)` can yield: a rejection, or a response with res.ok
\* false or true.
FetchOutcomes ==
    {[kind |-> "reject", message |-> "Failed to fetch"],
     [kind |-> "status", message |-> "Server error"],
     [kind |-> "ok", message |-> ""]}

\* What `await res.blob()` can yield.
BlobOutcomes ==
    {[kind |-> "reject", message |-> "network error", blob |-> ""],
     [kind |-> "ok", message |-> "", blob |-> "annotated"]}

\* What `await res.json()` can yield: a rejection (the body is not JSON), the
\* JSON value null, or an object.  A missing member reads as "".
JsonOutcomes ==
    {[kind |-> "reject", message |-> "Unexpected token < in JSON", video_url |-> "",
      filename |-> "", stats |-> 0, plot_url |-> ""],
     [kind |-> "null", message |-> "Cannot read properties of null", video_url |-> "",
      filename |-> "", stats |-> 0, plot_url |-> ""],
     [kind |-> "object", message |-> "", video_url |-> "/videos/a.mp4",
      filename |-> "a.mp4", stats |-> 3, plot_url |-> "/plots/a.png"],
     [kind |-> "object", message |-> "", video_url |-> "/videos/b.mp4",
      filename |-> "", stats |-> 1, plot_url |-> "/plots/b.png"]}

\* const API = (path) => `http://localhost:8000${path}`
API(path) == "http://localhost:8000" \o path

\* The index of the last "." of s, 0 when it has none.
RECURSIVE lastDot(_, _)
lastDot(s, k) ==
    IF k = 0 THEN 0
    ELSE IF SubSeq(s, k, k) = "." THEN k
    ELSE lastDot(s, k - 1)

\* file.name.replace(/\.[^.]+$/, "")
stripExt(name) ==
    LET k == lastDot(name, Len(name))
    IN  IF k > 0 /\ k < Len(name) THEN SubSeq(name, 1, k - 1) ELSE name

\* JSON.stringify(data.stats, null, 2) of the stats object {count: n}
stringifyStats(n) == "{\n  \"count\": " \o ToString(n) \o "\n}"

Button(disabled, text) == [disabled |-> disabled, textContent |-> text]
Link(href, download, display) == [href |-> href, download |-> download, display |-> display]

BatchInit ==
    /\ imageInput = ""
    /\ videoFile = ""
    /\ submitImage = Button(FALSE, "Submit Image")
    /\ submitVideo = Button(FALSE, "Submit Video")
    /\ imgFetch = 0
    /\ imgRead = 0
    /\ imgName = ""
    /\ vidFetch = 0
    /\ vidRead = 0
    /\ outputVideoSrc = ""
    /\ outputVideoHidden = TRUE
    /\ downloadImage = Link("", "", "none")
    /\ downloadLink = Link("", "", "none")
    /\ statsText = ""
    /\ statsHidden = TRUE
    /\ statsTitleHidden = TRUE
    /\ plotSrc = ""
    /\ plotHidden = TRUE

\* What a batch handler leaves behind: the alert it raised, no send().
raised(message) == alerted' = message /\ sent' = <<>> /\ threw' = FALSE

\* The user picks a file (or none) in the image or the video input.
chooseImage(name) ==
    /\ page = "index.html"
    /\ imageInput' = name
    /\ UNCHANGED <<submitImage, imgFetch, imgRead, imgName, downloadImage, videoVars,
                   outputVideoHidden, authVars, alerted, streamVars>>

chooseVideo(name) ==
    /\ page = "index.html"
    /\ videoFile' = name
    /\ UNCHANGED <<submitVideo, vidFetch, vidRead, outputVideoSrc, downloadLink,
                   statsText, statsHidden, statsTitleHidden, plotSrc, plotHidden,
                   imageVars, outputVideoHidden, authVars, alerted, streamVars>>

\* The video handler's restoration, had it been left out.
videoFinallyMissing == UNCHANGED submitVideo

\* The finally blocks.
imageFinally == submitImage' = Button(FALSE, "Submit Image")
videoFinally == submitVideo' = Button(FALSE, "Submit Video")

\* The image click handler, had it left the button enabled while it waits.
imageClickNoDisable ==
    /\ page = "index.html"
    /\ ~submitImage.disabled
    /\ IF imageInput = ""
       THEN /\ raised("Choose an image first.")
            /\ UNCHANGED <<submitImage, imgFetch, imgName>>
       ELSE /\ submitImage' = Button(FALSE, "Processing...")
            /\ imgFetch' = imgFetch + 1
            /\ imgName' = imageInput
            /\ raised("")
    /\ UNCHANGED <<imageInput, imgRead, downloadImage, videoVars, outputVideoHidden,
                   outputVars, authVars, socks, ws, timers, loopVars, settingVars>>

\* submitImage click, up to `await fetch(...)`.  A disabled button raises no
\* click event.  The label is "Processing" followed by U+2026 in the source.
imageClick ==
    /\ page = "index.html"
    /\ ~submitImage.disabled
    /\ IF imageInput = ""
       THEN /\ raised("Choose an image first.")
            /\ UNCHANGED <<submitImage, imgFetch, imgName>>
       ELSE /\ submitImage' = Button(TRUE, "Processing...")
            /\ imgFetch' = imgFetch + 1
            /\ imgName' = imageInput
            /\ raised("")
    /\ UNCHANGED <<imageInput, imgRead, downloadImage, videoVars, outputVideoHidden,
                   outputVars, authVars, socks, ws, timers, loopVars, settingVars>>

\* The image handler after `await fetch(...)`.
imageResponse(res) ==
    /\ imgFetch > 0
    /\ imgFetch' = imgFetch - 1
    /\ IF res.kind = "ok"
       THEN /\ imgRead' = imgRead + 1
            /\ UNCHANGED <<submitImage, alerted, sent, threw>>
       ELSE /\ raised("Failed: " \o res.message)
            /\ imageFinally
            /\ UNCHANGED imgRead
    /\ UNCHANGED <<imageInput, imgName, downloadImage, videoVars, outputVideoHidden,
                   outputVars, authVars, socks, ws, timers, loopVars, settingVars>>

\* The image handler after `await res.blob()`.
imageBody(body) ==
    /\ imgRead > 0
    /\ imgRead' = imgRead - 1
    /\ IF body.kind = "ok"
       THEN /\ outputSrc' = "blob:" \o body.blob
            /\ outputHidden' = FALSE
            /\ outputVideoHidden' = TRUE
            /\ downloadImage' = Link("blob:" \o body.blob,
                                     stripExt(imgName) \o "_annotated.jpg", "inline-block")
            /\ raised("")
       ELSE /\ raised("Failed: " \o body.message)
            /\ UNCHANGED <<outputVars, outputVideoHidden, downloadImage>>
    /\ imageFinally
    /\ UNCHANGED <<imageInput, imgFetch, imgName, videoVars,
                   authVars, socks, ws, timers, loopVars, settingVars>>

\* The video click handler, had it hidden the old results before looking
\* for the file.
videoClickHidesFirst ==
    /\ page = "index.html"
    /\ ~submitVideo.disabled
    /\ downloadLink' = [downloadLink EXCEPT !.display = "none"]
    /\ statsHidden' = TRUE
    /\ statsTitleHidden' = TRUE
    /\ plotHidden' = TRUE
    /\ IF videoFile = ""
       THEN /\ raised("Choose a video first.")
            /\ UNCHANGED <<submitVideo, vidFetch>>
       ELSE /\ submitVideo' = Button(TRUE, "Processing...")
            /\ vidFetch' = vidFetch + 1
            /\ raised("")
    /\ UNCHANGED <<videoFile, vidRead, outputVideoSrc, statsText, plotSrc, imageVars,
                   outputVideoHidden, outputVars, authVars, socks, ws, timers,
                   loopVars, settingVars>>

\* The video click handler, had it left the previous results on display.
videoClickKeepsResults ==
    /\ page = "index.html"
    /\ ~submitVideo.disabled
    /\ IF videoFile = ""
       THEN /\ raised("Choose a video first.")
            /\ UNCHANGED <<submitVideo, vidFetch>>
       ELSE /\ submitVideo' = Button(TRUE, "Processing...")
            /\ vidFetch' = vidFetch + 1
            /\ raised("")
    /\ UNCHANGED <<videoFile, vidRead, outputVideoSrc, statsText, plotSrc, imageVars,
                   downloadLink, statsHidden, statsTitleHidden, plotHidden,
                   outputVideoHidden, outputVars, authVars, socks, ws, timers,
                   loopVars, settingVars>>

\* submitVideo click, up to `await fetch(...)`.
videoClick ==
    /\ page = "index.html"
    /\ ~submitVideo.disabled
    /\ IF videoFile = ""
       THEN /\ raised("Choose a video first.")
            /\ UNCHANGED <<submitVideo, vidFetch, downloadLink, statsHidden,
                           statsTitleHidden, plotHidden>>
       ELSE /\ submitVideo' = Button(TRUE, "Processing...")
            /\ downloadLink' = [downloadLink EXCEPT !.display = "none"]
            /\ statsHidden' = TRUE
            /\ statsTitleHidden' = TRUE
            /\ plotHidden' = TRUE
            /\ vidFetch' = vidFetch + 1
            /\ raised("")
    /\ UNCHANGED <<videoFile, vidRead, outputVideoSrc, statsText, plotSrc, imageVars,
                   outputVideoHidden, outputVars, authVars, socks, ws, timers,
                   loopVars, settingVars>>

\* The video handler after `await fetch(...)`.
videoResponse(res) ==
    /\ vidFetch > 0
    /\ vidFetch' = vidFetch - 1
    /\ IF res.kind = "ok"
       THEN /\ vidRead' = vidRead + 1
            /\ UNCHANGED <<submitVideo, alerted, sent, threw>>
       ELSE /\ raised("Failed to process video: " \o res.message)
            /\ videoFinally
            /\ UNCHANGED vidRead
    /\ UNCHANGED <<videoFile, outputVideoSrc, downloadLink, statsText, statsHidden,
                   statsTitleHidden, plotSrc, plotHidden, imageVars, outputVideoHidden,
                   outputVars, authVars, socks, ws, timers, loopVars, settingVars>>

\* The video handler after `await res.json()`.
videoBody(data) ==
    /\ vidRead > 0
    /\ vidRead' = vidRead - 1
    /\ IF data.kind = "object"
       THEN /\ outputVideoSrc' = API(data.video_url)
            /\ outputVideoHidden' = FALSE
            /\ outputHidden' = TRUE
            /\ downloadLink' = Link(API(data.video_url),
                                    IF data.filename # "" THEN data.filename
                                    ELSE "annotated.mp4",
                                    "inline-block")
            /\ statsText' = stringifyStats(data.stats)
            /\ statsHidden' = FALSE
            /\ statsTitleHidden' = FALSE
            /\ plotSrc' = API(data.plot_url)
            /\ plotHidden' = FALSE
            /\ raised("")
            /\ UNCHANGED outputSrc
       ELSE /\ raised("Failed to process video: " \o data.message)
            /\ UNCHANGED <<outputVideoSrc, outputVideoHidden, outputVars, downloadLink,
                           statsText, statsHidden, statsTitleHidden, plotSrc, plotHidden>>
    /\ videoFinally
    /\ UNCHANGED <<videoFile, vidFetch, imageVars,
                   authVars, socks, ws, timers, loopVars, settingVars>>

AuthNext ==
    \/ \E p \in {"signup.html", "login.html"} : openPage(p)
    \/ loadGuarded
    \/ \E r \in RawEmails, p \in Passwords : signupSubmit(r, p)
    \/ \E r \in RawEmails, p \in Passwords : loginSubmit(r, p)
    \/ logoutClick


StreamNext ==
    \/ startClick
    \/ cameraGranted
    \/ cameraDenied
    \/ videoLoaded
    \/ captureLoop
    \/ \E b \in BOOLEAN : toBlobDone(b)
    \/ bufferReady
    \/ \E i \in SockIds : onopen(i)
    \/ \E i \in SockIds, ev \in Inbound : onmessage(i, ev)
    \/ \E i \in SockIds : closing(i)
    \/ \E i \in SockIds : onclose(i)
    \/ reconnect
    \/ \E c \in Colours : colorChange(c)
    \/ \E c \in Confs : confInput(c)

\* index.html just loaded for a user who signed up.
SignedIn ==
    /\ usersItem = saveUser(<<>>, "a@x.com", "pw1")
    /\ authItem = setAuthed("a@x.com")
    /\ page = "index.html"
    /\ alerted = ""
    /\ lastPw = [e \in {"a@x.com"} |-> "pw1"]

BatchNext ==
    \/ \E n \in ImageNames \cup {""} : chooseImage(n)
    \/ \E n \in VideoNames \cup {""} : chooseVideo(n)
    \/ imageClick
    \/ \E r \in FetchOutcomes : imageResponse(r)
    \/ \E r \in BlobOutcomes : imageBody(r)
    \/ videoClick
    \/ \E r \in FetchOutcomes : videoResponse(r)
    \/ \E r \in JsonOutcomes : videoBody(r)

AuthSpecInit == AuthInit /\ StreamInit /\ BatchInit
AuthSpec == AuthSpecInit /\ [][AuthNext]_vars

StreamSpecInit == SignedIn /\ StreamInit /\ BatchInit
StreamSpec == StreamSpecInit /\ [][StreamNext]_vars

BatchSpec == StreamSpecInit /\ [][BatchNext]_vars

\* fetch(), res.blob() and res.json() settle: every pending promise of the
\* batch handlers is eventually resolved or rejected.
BatchFairSpec ==
    /\ BatchSpec
    /\ WF_vars(\E r \in FetchOutcomes : imageResponse(r))
    /\ WF_vars(\E r \in BlobOutcomes : imageBody(r))
    /\ WF_vars(\E r \in FetchOutcomes : videoResponse(r))
    /\ WF_vars(\E r \in JsonOutcomes : videoBody(r))

\* The connection alone: the clicks that create sockets, the socket events
\* and the reconnect timer, without the capture loop and the settings.
SocketNext ==
    \/ startClick
    \/ cameraGranted
    \/ cameraDenied
    \/ \E i \in SockIds : onopen(i)
    \/ \E i \in SockIds, ev \in Inbound : onmessage(i, ev)
    \/ \E i \in SockIds : closing(i)
    \/ \E i \in SockIds : onclose(i)
    \/ reconnect

SocketSpec == StreamSpecInit /\ [][SocketNext]_vars

\* Timers fire: a pending setTimeout(connectWS, 1000) callback is eventually
\* run.
SocketFairSpec == SocketSpec /\ WF_vars(reconnect)

\* The two output elements: everything that shows or hides `output` and
\* `outputVideo`, that is the socket up to its inbound messages and the two
\* upload flows.
DisplayNext ==
    \/ startClick
    \/ \E i \in SockIds : onopen(i)
    \/ \E i \in SockIds, ev \in Inbound : onmessage(i, ev)
    \/ \E n \in ImageNames : chooseImage(n)
    \/ \E n \in VideoNames : chooseVideo(n)
    \/ imageClick
    \/ \E r \in FetchOutcomes : imageResponse(r)
    \/ \E r \in BlobOutcomes : imageBody(r)
    \/ videoClick
    \/ \E r \in FetchOutcomes : videoResponse(r)
    \/ \E r \in JsonOutcomes : videoBody(r)

DisplaySpec == StreamSpecInit /\ [][DisplayNext]_vars

-----------------------------------------------------------------------------
(* The claims *)

\* C1: at most one encode-or-send cycle is in flight at any time, however
\* many capture loops run, and while one is in flight `sending` is true.
C1_SingleInFlight ==
    /\ encoding + buffering <= 1
    /\ (encoding + buffering = 1 => sending)

\* C1 witness: two capture loops are ticking and one cycle is in flight.
C1_Witness == rafs >= 2 /\ encoding + buffering = 1 /\ sending

\* C2 (as claimed): whenever `sending` is true a cycle is still in flight
\* that will set it back to false, so the flag never stays stuck at true.
C2_FlagCleared == sending => encoding + buffering > 0

\* C3 (as claimed): reconnect attempts never run in parallel: the sockets
\* that can still close and the pending reconnect timers number at most one.
C3_SingleReconnectChain == timers <= 1 /\ chains <= 1

\* C4 (as claimed): at most one socket that is not closed exists at a time.
C4_OneSocket == Cardinality(live(socks)) <= 1

\* C5 (as claimed): when a socket goes from CONNECTING to OPEN, that step
\* sends `color=<colour>` then `conf=<confidence>` on that same socket.
C5_GreetOnOpen ==
    [][\A i \in SockIds :
          socks[i] = "CONNECTING" /\ socks'[i] = "OPEN"
          => sent' = <<[to |-> i, readyState |-> "OPEN", data |-> colorMsg(colour)],
                       [to |-> i, readyState |-> "OPEN", data |-> confMsg(conf)]>>]_vars

\* C6: a step that changes the colour (the confidence) sends exactly one
\* message `color=<new value>` (`conf=<new value>`) on ws when ws is open,
\* whatever the in-flight flag and the loop are doing, and sends nothing when
\* ws is not open.
C6_SettingsPropagation ==
    [][/\ colour' # colour =>
            sent' = IF ws # 0 /\ socks[ws] = "OPEN"
                    THEN <<[to |-> ws, readyState |-> "OPEN",
                            data |-> [type |-> "text", data |-> "color=" \o colour']]>>
                    ELSE <<>>
       /\ conf' # conf =>
            sent' = IF ws # 0 /\ socks[ws] = "OPEN"
                    THEN <<[to |-> ws, readyState |-> "OPEN",
                            data |-> [type |-> "text", data |-> "conf=" \o conf']]>>
                    ELSE <<>>]_vars

\* C6 witness: the colour was just changed while a frame cycle was in flight,
\* and its one message went out on the open socket.
C6_Witness ==
    /\ sending
    /\ ws # 0
    /\ sent = <<[to |-> ws, readyState |-> "OPEN", data |-> colorMsg(colour)]>>

\* C7 (as claimed): requireAuth redirects exactly when no session marker is
\* stored.
C7_RedirectIffNoMarker == requireAuth(authItem) <=> authItem = <<>>

\* C8 (as claimed): checkUser(email, password) is true exactly when email has
\* signed up and password is the password of its most recent signup.
C8_LastWriteWins ==
    \A e \in Emails, p \in Passwords :
        checkUser(usersItem, e, p) <=> (e \in DOMAIN lastPw /\ lastPw[e] = p)

\* C9: a login that does not authenticate leaves the marker and the users
\* mapping as they were, alerts "Invalid credentials" and stays on the page;
\* a login that authenticates sets the marker to the submitted (trimmed) email.
C9_Login ==
    [][\A r \in RawEmails, p \in Passwords :
          loginSubmit(r, p) =>
             IF checkUser(usersItem, trim(r), p)
             THEN authItem' = <<trim(r)>>
             ELSE /\ authItem' = authItem
                  /\ usersItem' = usersItem
                  /\ alerted' = "Invalid credentials"
                  /\ page' = page]_vars

\* C9 witness: a login failed although users are registered, after someone
\* had logged out.
C9_Witness ==
    /\ alerted = "Invalid credentials"
    /\ usersItem # <<>>
    /\ authItem = <<>>
    /\ page = "login.html"

\* C10: a flow with no request in flight has its button enabled with its
\* original label, and a disabled button is eventually enabled again.
C10_ButtonsRestored ==
    /\ [](imgFetch + imgRead = 0 => submitImage = Button(FALSE, "Submit Image"))
    /\ [](vidFetch + vidRead = 0 => submitVideo = Button(FALSE, "Submit Video"))
    /\ (submitImage.disabled ~> submitImage = Button(FALSE, "Submit Image"))
    /\ (submitVideo.disabled ~> submitVideo = Button(FALSE, "Submit Video"))

\* C10 witness: a video submission failed while its response was rendered
\* (the body was the JSON value null) and the button is back.
C10_Witness ==
    /\ alerted = "Failed to process video: Cannot read properties of null"
    /\ vidFetch + vidRead = 0
    /\ submitVideo = Button(FALSE, "Submit Video")

\* C11: each batch flow has at most one request in flight, its button is
\* disabled exactly while that request is in flight, and neither flow's
\* request disables the other flow's button.
C11_OneRequestPerFlow ==
    /\ imgFetch + imgRead <= 1
    /\ vidFetch + vidRead <= 1
    /\ (submitImage.disabled <=> imgFetch + imgRead = 1)
    /\ (submitVideo.disabled <=> vidFetch + vidRead = 1)

\* C11 witness: the image request is in flight and the video button can
\* still be clicked; it has a file to send.
C11_Witness ==
    /\ imgFetch = 1
    /\ submitImage.disabled
    /\ ~submitVideo.disabled
    /\ videoFile # ""

\* C12: a click on either submit button with no file chosen raises the
\* validation alert, starts no request and leaves both buttons and every
\* result element as they were.
C12_NoFileNoRequest ==
    [][/\ (imageClick /\ imageInput = "") =>
            /\ alerted' = "Choose an image first."
            /\ UNCHANGED <<imgFetch, imgRead, vidFetch, vidRead, submitImage, submitVideo,
                           outputVars, outputVideoSrc, outputVideoHidden, downloadImage,
                           downloadLink, statsText, statsHidden, statsTitleHidden,
                           plotSrc, plotHidden>>
       /\ (videoClick /\ videoFile = "") =>
            /\ alerted' = "Choose a video first."
            /\ UNCHANGED <<imgFetch, imgRead, vidFetch, vidRead, submitImage, submitVideo,
                           outputVars, outputVideoSrc, outputVideoHidden, downloadImage,
                           downloadLink, statsText, statsHidden, statsTitleHidden,
                           plotSrc, plotHidden>>]_vars

\* C12 witness: the video button was clicked with no file chosen while the
\* results of an earlier submission were on display, and they still are.
C12_Witness ==
    /\ alerted = "Choose a video first."
    /\ ~statsHidden
    /\ ~plotHidden
    /\ downloadLink.display = "inline-block"

\* C13 (as claimed): every camera frame handed to send() goes to a socket
\* that is OPEN at that moment.
C13_FramesOnlyWhenOpen ==
    \A k \in 1 .. Len(sent) :
        sent[k].data = frameMsg => sent[k].readyState = "OPEN"

\* C15: a text message changes neither the output image, nor `sending`, nor
\* any socket; a binary message becomes the output image's source and shows
\* it; and nothing else on the streaming path changes the output image, so it
\* shows the last binary message received.
C15_InboundMessages ==
    [][/\ \A i \in SockIds, ev \in Inbound :
            onmessage(i, ev) =>
                IF ev.type = "text"
                THEN UNCHANGED <<outputSrc, outputHidden, sending, socks, ws>>
                ELSE outputSrc' = "blob:" \o ev.data /\ outputHidden' = FALSE
       /\ (outputSrc' # outputSrc \/ outputHidden' # outputHidden) =>
            \E i \in SockIds, ev \in Inbound : ev.type = "binary" /\ onmessage(i, ev)]_vars

\* C15 witness: a binary frame is on display while a capture cycle is in
\* flight.
C15_Witness ==
    /\ outputSrc = "blob:jpegB"
    /\ ~outputHidden
    /\ sending
    /\ wsOpen(socks, ws)

\* C20 (as claimed): at most one capture loop is active: at most one
\* requestAnimationFrame(captureLoop) callback is pending.
C20_SingleLoop == rafs <= 1

\* C14: every close of a socket leaves one more reconnect timer pending,
\* whatever the socket's state was and however many closes came before;
\* either connectWS runs from a timer again and again, or from some point on
\* no timer is pending (so no close is left without its reconnect); and no
\* handler of the streaming path raises an alert.
C14_AlwaysReconnects ==
    /\ [][\A i \in SockIds :
             (socks[i] \in {"CONNECTING", "OPEN", "CLOSING"}
                 /\ socks'[i] \in {"CLOSED", "FREE"})
             => timers' = timers + 1]_vars
    /\ ([]<><<reconnect>>_vars \/ <>[](timers = 0))
    /\ [](alerted = "")

\* C14 witness: the only socket has closed; `ws` still holds it and its
\* reconnect timer is pending.
C14_Witness ==
    /\ timers = 1
    /\ ws # 0
    /\ socks[ws] = "CLOSED"
    /\ \A i \in SockIds : i # ws => socks[i] = "FREE"

\* C16 (as claimed): logout deletes the marker and leaves the users mapping
\* as it was, so that requireAuth redirects right after it; and a login made
\* while logged out, with an email that has signed up and the password of its
\* most recent signup, sets the marker to that email and opens index.html.
C16_LogoutThenLogin ==
    [][/\ logoutClick =>
            /\ authItem' = <<>>
            /\ usersItem' = usersItem
            /\ requireAuth(authItem')
       /\ \A r \in RawEmails, p \in Passwords :
            (/\ loginSubmit(r, p)
             /\ authItem = <<>>
             /\ trim(r) \in DOMAIN lastPw
             /\ lastPw[trim(r)] = p)
            => /\ authItem' = <<trim(r)>>
               /\ page' = "index.html"]_vars

\* C17 (as claimed): a marker that is present names an email that has a
\* record in the stored users mapping.
C17_MarkerHasRecord ==
    authItem # <<>> => authItem[1] \in DOMAIN loadUsers(usersItem).own

\* C19: when a video submission ends in its catch block (the fetch rejected,
\* the status was not 2xx, or the body could not be used), the download
\* link, the stats panel, the stats title and the plot are all hidden; and
\* any of the four becomes visible only by a submission that succeeds.
C19_FailedVideoShowsNothing ==
    [][/\ (/\ \/ \E r \in FetchOutcomes : videoResponse(r)
              \/ \E d \in JsonOutcomes : videoBody(d)
           /\ \E o \in FetchOutcomes \cup JsonOutcomes :
                 /\ o.message # ""
                 /\ alerted' = "Failed to process video: " \o o.message)
          => /\ downloadLink'.display = "none"
             /\ statsHidden'
             /\ statsTitleHidden'
             /\ plotHidden'
       /\ (\/ downloadLink.display = "none" /\ downloadLink'.display # "none"
           \/ statsHidden /\ ~statsHidden'
           \/ statsTitleHidden /\ ~statsTitleHidden'
           \/ plotHidden /\ ~plotHidden')
          => \E d \in JsonOutcomes : d.kind = "object" /\ videoBody(d)]_vars

\* C19 witness: a video submission has failed after an earlier one had
\* succeeded; the earlier results are still loaded but hidden.
C19_Witness ==
    /\ alerted = "Failed to process video: Server error"
    /\ vidFetch + vidRead = 0
    /\ statsText # ""
    /\ plotSrc # ""
    /\ statsHidden
    /\ plotHidden

\* C18 (as claimed): the output image and the output video are never both
\* visible.
C18_OneOutputVisible == outputHidden \/ outputVideoHidden

====
